---- MODULE Spec2Model ----
(***************************************************************************)
(* Model of post-test-results-to-azure-devops/post_results.py: the         *)
(* AzureDevOpsClient and the pipeline that main() runs over it.            *)
(*                                                                         *)
(* A Python dict is a function whose domain is its set of keys.  A         *)
(* response is what the session call handed back: whether a response was   *)
(* received at all, its status code, and its body (whether it decodes to   *)
(* the JSON shape the caller indexes, and the decoded content).  Time      *)
(* stamps and free-text comments of the request payloads are left out.     *)
(***************************************************************************)
EXTENDS Integers, Sequences, FiniteSets, TLC

\* ---- bounds of the model ------------------------------------------------
MaxList == 2
MaxPoints == 1
MaxResults == 2

\* ---- program constants --------------------------------------------------
DefaultPriority == 2
OkStatus == 200

DefaultOutcome == "NotExecuted"
DefaultFailureType == "New Issue"
StateCompleted == "Completed"

\* ---- value universe -----------------------------------------------------
Statuses == {200, 204, 300, 404, 500}
PlanNames == {"P", "p"}
SuiteNames == {"S", "s"}
PlanIds == {1, 2}
SuiteIds == {3, 4}
PointIds == {11}
RunIds == {9}
ResultIds == {55, 77}
TcIds == {"t1", "t2"}
Outcomes == {"Passed", "Failed"}
InputPriorities == {1}
InputFailureTypes == {"Known Issue"}

SeqsUpTo(S, n) == UNION {[1..k -> S] : k \in 0..n}

\* ---- dict helpers (dict.get, dict.update) -------------------------------
EmptyDict == [k \in {} |-> 0]

Get(d, k, dflt) == IF k \in DOMAIN d THEN d[k] ELSE dflt

Update(d, e) ==
    [k \in (DOMAIN d) \cup (DOMAIN e) |-> IF k \in DOMAIN e THEN e[k] ELSE d[k]]

\* ---- the input document -------------------------------------------------
InputResults ==
    {Update(Update([outcome |-> o], p), f) :
        o \in Outcomes,
        p \in {EmptyDict} \cup {[priority |-> x] : x \in InputPriorities},
        f \in {EmptyDict} \cup {[failureType |-> x] : x \in InputFailureTypes}}

TestResultsMaps == UNION {[D -> InputResults] : D \in SUBSET TcIds}

NoDoc == [testPlanName |-> "", testSuiteName |-> "", testResults |-> EmptyDict]

Files ==
    {[exists |-> TRUE, complete |-> TRUE,
      doc |-> [testPlanName |-> "P", testSuiteName |-> "S", testResults |-> tr]] :
        tr \in TestResultsMaps}
    \cup {[exists |-> FALSE, complete |-> FALSE, doc |-> NoDoc],
          [exists |-> TRUE, complete |-> FALSE, doc |-> NoDoc]}

\* ---- responses ----------------------------------------------------------
BadBody == [json |-> FALSE, value |-> <<>>, id |-> 0]
ListBody(v) == [json |-> TRUE, value |-> v, id |-> 0]
IdBody(i) == [json |-> TRUE, value |-> <<>>, id |-> i]

NoResponse == [received |-> FALSE, status |-> 0, body |-> BadBody]

Replies(bodies) ==
    {[received |-> TRUE, status |-> s, body |-> b] :
        s \in Statuses, b \in bodies \cup {BadBody}}
    \cup {NoResponse}

PlanBodies ==
    {ListBody(v) : v \in SeqsUpTo([id : PlanIds, name : PlanNames], MaxList)}
SuiteBodies ==
    {ListBody(v) : v \in SeqsUpTo([id : SuiteIds, name : SuiteNames], MaxList)}
PointBodies ==
    {ListBody(v) : v \in SeqsUpTo([id : PointIds], MaxPoints)}
RunBodies == {IdBody(i) : i \in RunIds}
ResultBodies ==
    {ListBody(v) :
        v \in SeqsUpTo([id : ResultIds, testCase : [id : TcIds]], MaxResults)}

Request(method, uri, ids, json) ==
    [method |-> method, uri |-> uri, ids |-> ids, json |-> json]

VARIABLES
    file,                  \* the JSON file named by --test-result-json
    pc,                    \* the step of main() that runs next (or raised)
    error,                 \* the exception main() re-raised, "none" if none
    requests,              \* the HTTP requests issued so far, in order
    response,              \* the response to the last request
    parsed,                \* response.json() was called on the last response
    test_plan_name,
    test_suite_name,
    test_results,          \* the testResults dict in memory
    test_plan_id,
    test_suite_id,
    test_points,
    run_id,
    test_points_results,   \* the placeholder records process_test_results read
    test_results_payload,  \* the list process_test_results returned
    is_failure             \* AzureDevOpsClient.is_failure

vars == <<file, pc, error, requests, response, parsed, test_plan_name,
          test_suite_name, test_results, test_plan_id, test_suite_id,
          test_points, run_id, test_points_results, test_results_payload,
          is_failure>>

Init ==
    /\ file \in Files
    /\ pc = "load"
    /\ error = "none"
    /\ requests = <<>>
    /\ response = NoResponse
    /\ parsed = FALSE
    /\ test_plan_name = ""
    /\ test_suite_name = ""
    /\ test_results = EmptyDict
    /\ test_plan_id = 0
    /\ test_suite_id = 0
    /\ test_points = <<>>
    /\ run_id = 0
    /\ test_points_results = <<>>
    /\ test_results_payload = <<>>
    /\ is_failure = FALSE

\* ---- response.raise_for_status() and response.json() --------------------
RaiseForServerError(status) == status >= 500 /\ status < 600

RaiseForStatus(status) == status >= 400 /\ status < 600

\* The exception raised by the common prefix of every GET/POST method:
\* session call, raise_for_status(), response.json(), indexing the body.
FetchError(resp) ==
    IF ~resp.received THEN "ConnectionError"
    ELSE IF RaiseForStatus(resp.status) THEN "HTTPError"
    ELSE IF ~resp.body.json THEN "JSONError"
    ELSE "none"

JsonCalled(resp) == resp.received /\ ~RaiseForStatus(resp.status)

\* ---- main(): the order of the calls -------------------------------------
Steps ==
    <<"load", "get_test_plan_id", "get_test_suite_id", "get_test_points",
      "create_test_run", "process_test_results", "post_test_results",
      "complete_test_run", "done">>

StepIndex(step) == CHOOSE i \in 1..Len(Steps) : Steps[i] = step

StepAfterCompleteFirst(step) ==
    IF step = "process_test_results" THEN "complete_test_run"
    ELSE IF step = "complete_test_run" THEN "post_test_results"
    ELSE IF step = "post_test_results" THEN "done"
    ELSE Steps[StepIndex(step) + 1]

StepAfter(step) == Steps[StepIndex(step) + 1]

\* ---- main(): reading the input file -------------------------------------
Load ==
    /\ pc = "load" /\ error = "none"
    /\ IF ~file.exists
       THEN /\ error' = "FileNotFoundError"
            /\ UNCHANGED <<pc, test_plan_name, test_suite_name, test_results>>
       ELSE IF ~file.complete
       THEN /\ error' = "KeyError"
            /\ UNCHANGED <<pc, test_plan_name, test_suite_name, test_results>>
       ELSE /\ test_plan_name' = file.doc.testPlanName
            /\ test_suite_name' = file.doc.testSuiteName
            /\ test_results' = file.doc.testResults
            /\ pc' = StepAfter(pc)
            /\ UNCHANGED error
    /\ UNCHANGED <<file, requests, response, parsed, test_plan_id,
                   test_suite_id, test_points, run_id, test_points_results,
                   test_results_payload, is_failure>>

\* ---- get_test_plan_id / get_test_suite_id -------------------------------
\* Index of the entry the for loop returns from; 0 when the loop falls
\* through to the raise.
LastMatch(list, name) ==
    LET hits == {i \in 1..Len(list) : list[i].name = name}
    IN  IF hits = {} THEN 0 ELSE CHOOSE i \in hits : \A j \in hits : j <= i

FirstMatch(list, name) ==
    LET hits == {i \in 1..Len(list) : list[i].name = name}
    IN  IF hits = {} THEN 0 ELSE CHOOSE i \in hits : \A j \in hits : i <= j

GetTestPlanId ==
    /\ pc = "get_test_plan_id" /\ error = "none"
    /\ requests' = Append(requests, Request("GET", "plans", <<>>, <<>>))
    /\ \E resp \in Replies(PlanBodies) :
        /\ response' = resp
        /\ parsed' = JsonCalled(resp)
        /\ LET m == FirstMatch(resp.body.value, test_plan_name)
           IN  IF FetchError(resp) # "none"
               THEN error' = FetchError(resp) /\ UNCHANGED <<pc, test_plan_id>>
               ELSE IF m = 0
               THEN error' = "NotFound" /\ UNCHANGED <<pc, test_plan_id>>
               ELSE /\ test_plan_id' = resp.body.value[m].id
                    /\ pc' = StepAfter(pc)
                    /\ UNCHANGED error
    /\ UNCHANGED <<file, test_plan_name, test_suite_name, test_results,
                   test_suite_id, test_points, run_id, test_points_results,
                   test_results_payload, is_failure>>

GetTestSuiteId ==
    /\ pc = "get_test_suite_id" /\ error = "none"
    /\ requests' = Append(requests,
                          Request("GET", "suites", <<test_plan_id>>, <<>>))
    /\ \E resp \in Replies(SuiteBodies) :
        /\ response' = resp
        /\ parsed' = JsonCalled(resp)
        /\ LET m == FirstMatch(resp.body.value, test_suite_name)
           IN  IF FetchError(resp) # "none"
               THEN error' = FetchError(resp) /\ UNCHANGED <<pc, test_suite_id>>
               ELSE IF m = 0
               THEN error' = "NotFound" /\ UNCHANGED <<pc, test_suite_id>>
               ELSE /\ test_suite_id' = resp.body.value[m].id
                    /\ pc' = StepAfter(pc)
                    /\ UNCHANGED error
    /\ UNCHANGED <<file, test_plan_name, test_suite_name, test_results,
                   test_plan_id, test_points, run_id, test_points_results,
                   test_results_payload, is_failure>>

\* ---- get_test_points ----------------------------------------------------
GetTestPoints ==
    /\ pc = "get_test_points" /\ error = "none"
    /\ requests' = Append(requests,
                          Request("GET", "points",
                                  <<test_plan_id, test_suite_id>>, <<>>))
    /\ \E resp \in Replies(PointBodies) :
        /\ response' = resp
        /\ parsed' = JsonCalled(resp)
        /\ IF FetchError(resp) # "none"
           THEN error' = FetchError(resp) /\ UNCHANGED <<pc, test_points>>
           ELSE /\ test_points' = [i \in 1..Len(resp.body.value) |->
                                      resp.body.value[i].id]
                /\ pc' = StepAfter(pc)
                /\ UNCHANGED error
    /\ UNCHANGED <<file, test_plan_name, test_suite_name, test_results,
                   test_plan_id, test_suite_id, run_id, test_points_results,
                   test_results_payload, is_failure>>

\* ---- create_test_run ----------------------------------------------------
CreateTestRun ==
    /\ pc = "create_test_run" /\ error = "none"
    /\ requests' = Append(requests,
                          Request("POST", "runs", <<>>,
                                  <<[plan |-> test_plan_id,
                                     pointIds |-> test_points,
                                     automated |-> TRUE]>>))
    /\ \E resp \in Replies(RunBodies) :
        /\ response' = resp
        /\ parsed' = JsonCalled(resp)
        /\ IF FetchError(resp) # "none"
           THEN error' = FetchError(resp) /\ UNCHANGED <<pc, run_id>>
           ELSE /\ run_id' = resp.body.id
                /\ pc' = StepAfter(pc)
                /\ UNCHANGED error
    /\ UNCHANGED <<file, test_plan_name, test_suite_name, test_results,
                   test_plan_id, test_suite_id, test_points,
                   test_points_results, test_results_payload, is_failure>>

\* ---- process_test_results -----------------------------------------------
\* test_results.get(point_result["testCase"]["id"], {"outcome": "NotExecuted"})
LookupResult(tr, tc) == Get(tr, tc, [outcome |-> DefaultOutcome])

OverlayDefaultPriority(result, point_result) ==
    Update(result, [id |-> point_result.id,
                    state |-> StateCompleted,
                    priority |-> DefaultPriority])

\* result.update({"id": ..., "state": "Completed", "priority": ...})
Overlay(result, point_result) ==
    Update(result, [id |-> point_result.id,
                    state |-> StateCompleted,
                    priority |-> Get(result, "priority", DefaultPriority)])

WithFailureTypeReset(result) ==
    IF result.outcome # "Passed"
    THEN Update(result, [failureType |-> DefaultFailureType])
    ELSE result

\* if result["outcome"] != "Passed": result["failureType"] = result.get(...)
WithFailureType(result) ==
    IF result.outcome # "Passed"
    THEN Update(result,
                [failureType |-> Get(result, "failureType", DefaultFailureType)])
    ELSE result

FlagOfLast(flag, result) == result.outcome # "Passed"

\* if result["outcome"] != "Passed": self.is_failure = True
FlagAfter(flag, result) == flag \/ result.outcome # "Passed"

\* The for loop.  tr is the testResults dict, whose values the loop updates
\* in place; a cell of the payload list is either the dict object stored in
\* tr under key (shared) or the fresh default dict of this iteration (obj).
RECURSIVE MergeLoop(_, _, _, _)
MergeLoop(points, tr, cells, flag) ==
    IF points = <<>>
    THEN [results |-> tr, cells |-> cells, flag |-> flag]
    ELSE LET point_result == Head(points)
             tc == point_result.testCase.id
             hit == tc \in DOMAIN tr
             result == WithFailureType(Overlay(LookupResult(tr, tc), point_result))
         IN  MergeLoop(Tail(points),
                       IF hit THEN [tr EXCEPT ![tc] = result] ELSE tr,
                       Append(cells, [shared |-> hit, key |-> tc, obj |-> result]),
                       FlagAfter(flag, result))

Deref(cell, tr) == IF cell.shared THEN tr[cell.key] ELSE cell.obj

MergeFlaggingInputs(points, tr, flag) ==
    LET m == MergeLoop(points, tr, <<>>, flag)
    IN  [results |-> m.results,
         payload |-> [i \in 1..Len(m.cells) |-> Deref(m.cells[i], m.results)],
         flag |-> m.flag \/ \E tc \in DOMAIN tr : tr[tc].outcome # "Passed"]

\* What the loop leaves behind: the updated dict, the returned list as it
\* reads once the loop is over, and the failure flag.
Merge(points, tr, flag) ==
    LET m == MergeLoop(points, tr, <<>>, flag)
    IN  [results |-> m.results,
         payload |-> [i \in 1..Len(m.cells) |-> Deref(m.cells[i], m.results)],
         flag |-> m.flag]

ProcessTestResults ==
    /\ pc = "process_test_results" /\ error = "none"
    /\ requests' = Append(requests, Request("GET", "results", <<run_id>>, <<>>))
    /\ \E resp \in Replies(ResultBodies) :
        /\ response' = resp
        /\ parsed' = JsonCalled(resp)
        /\ IF FetchError(resp) # "none"
           THEN /\ error' = FetchError(resp)
                /\ UNCHANGED <<pc, test_results, test_points_results,
                               test_results_payload, is_failure>>
           ELSE LET m == Merge(resp.body.value, test_results, is_failure)
                IN  /\ test_points_results' = resp.body.value
                    /\ test_results' = m.results
                    /\ test_results_payload' = m.payload
                    /\ is_failure' = m.flag
                    /\ pc' = StepAfter(pc)
                    /\ UNCHANGED error
    /\ UNCHANGED <<file, test_plan_name, test_suite_name, test_plan_id,
                   test_suite_id, test_points, run_id>>

\* ---- post_test_results / complete_test_run ------------------------------
PatchErrorOnHttpError(resp) ==
    IF ~resp.received THEN "ConnectionError"
    ELSE IF resp.status >= 400 THEN "UnexpectedResponse"
    ELSE "none"

\* if response.status_code != 200: raise ValueError(...)
PatchError(resp) ==
    IF ~resp.received THEN "ConnectionError"
    ELSE IF resp.status # OkStatus THEN "UnexpectedResponse"
    ELSE "none"

PostTestResults ==
    /\ pc = "post_test_results" /\ error = "none"
    /\ requests' = Append(requests,
                          Request("PATCH", "results", <<run_id>>,
                                  test_results_payload))
    /\ \E resp \in Replies({}) :
        /\ response' = resp
        /\ IF PatchError(resp) # "none"
           THEN error' = PatchError(resp) /\ UNCHANGED pc
           ELSE pc' = StepAfter(pc) /\ UNCHANGED error
    /\ parsed' = FALSE
    /\ UNCHANGED <<file, test_plan_name, test_suite_name, test_results,
                   test_plan_id, test_suite_id, test_points, run_id,
                   test_points_results, test_results_payload, is_failure>>

RunStateInverted(flag) == IF flag THEN "Completed" ELSE "NeedsInvestigation"

\* state = "NeedsInvestigation" if self.is_failure else "Completed"
RunState(flag) == IF flag THEN "NeedsInvestigation" ELSE "Completed"

CompleteTestRun ==
    /\ pc = "complete_test_run" /\ error = "none"
    /\ requests' = Append(requests,
                          Request("PATCH", "run", <<run_id>>,
                                  <<[state |-> RunState(is_failure)]>>))
    /\ \E resp \in Replies({}) :
        /\ response' = resp
        /\ IF PatchError(resp) # "none"
           THEN error' = PatchError(resp) /\ UNCHANGED pc
           ELSE pc' = StepAfter(pc) /\ UNCHANGED error
    /\ parsed' = FALSE
    /\ UNCHANGED <<file, test_plan_name, test_suite_name, test_results,
                   test_plan_id, test_suite_id, test_points, run_id,
                   test_points_results, test_results_payload, is_failure>>

Next ==
    \/ Load
    \/ GetTestPlanId
    \/ GetTestSuiteId
    \/ GetTestPoints
    \/ CreateTestRun
    \/ ProcessTestResults
    \/ PostTestResults
    \/ CompleteTestRun

Spec == Init /\ [][Next]_vars

TypeOK ==
    /\ pc \in {Steps[i] : i \in 1..Len(Steps)}
    /\ error \in {"none", "FileNotFoundError", "KeyError", "ConnectionError",
                  "HTTPError", "JSONError", "NotFound", "UnexpectedResponse"}
    /\ is_failure \in BOOLEAN
    /\ Len(requests) <= 7

\* ---- vocabulary of the properties ---------------------------------------
Input == file.doc.testResults

Merged == StepIndex(pc) > StepIndex("process_test_results")

Records == 1..Len(test_results_payload)

TcOf(i) == test_points_results[i].testCase.id

Matched(i) == TcOf(i) \in DOMAIN Input

Issued(uri, method) ==
    \E i \in 1..Len(requests) :
        requests[i].uri = uri /\ requests[i].method = method

LastRequest == requests[Len(requests)]

CompletionSent == Issued("run", "PATCH")

SentState == requests[Len(Steps) - 2].json[1].state

SomeRecordNotPassed ==
    \E i \in Records : test_results_payload[i].outcome # "Passed"

AllInputsPassed == \A tc \in DOMAIN Input : Input[tc].outcome = "Passed"

\* The step that issued the last request raised: pc still names it.
LastStepRaised == error # "none" /\ Len(requests) = StepIndex(pc) - 1

ExpectedRequests ==
    <<[method |-> "GET", uri |-> "plans"],
      [method |-> "GET", uri |-> "suites"],
      [method |-> "GET", uri |-> "points"],
      [method |-> "POST", uri |-> "runs"],
      [method |-> "GET", uri |-> "results"],
      [method |-> "PATCH", uri |-> "results"],
      [method |-> "PATCH", uri |-> "run"]>>

\* ---- C1 -----------------------------------------------------------------
C1_StateSent ==
    CompletionSent =>
        /\ SentState \in {"NeedsInvestigation", "Completed"}
        /\ (SentState = "NeedsInvestigation") <=> SomeRecordNotPassed
        /\ (SentState = "Completed") <=> ~SomeRecordNotPassed

\* C1: whenever the run-completion PATCH has been sent, the state it carries
\* is "NeedsInvestigation" exactly when some record that process_test_results
\* returned has an outcome other than "Passed", and "Completed" otherwise;
\* and no step of the pipeline turns the failure flag from set to unset.
C1_RunStateReflectsMerge ==
    [](C1_StateSent) /\ [][is_failure => is_failure']_vars

C1_Witness ==
    /\ CompletionSent
    /\ SentState = "NeedsInvestigation"
    /\ Len(test_results_payload) = 2
    /\ test_results_payload[1].outcome = "Failed"
    /\ test_results_payload[2].outcome = "Passed"

\* ---- C2 -----------------------------------------------------------------
\* C2 as stated: if every result of the input testResults mapping has outcome
\* "Passed", then whatever placeholder records the server returns the failure
\* flag stays unset and the run is completed with state "Completed".
C2_Original ==
    (file.exists /\ file.complete /\ AllInputsPassed) =>
        /\ ~is_failure
        /\ CompletionSent => SentState = "Completed"

\* C2 amended: if every result of the input testResults mapping has outcome
\* "Passed" and the test-case id of every server placeholder record has an
\* entry in the input, the failure flag is never set and the run-completion
\* PATCH, when sent, carries state "Completed".
C2_AllPassedAllMatched ==
    (file.exists /\ file.complete /\ AllInputsPassed) =>
        /\ ~Merged => ~is_failure
        /\ (Merged /\ \A i \in Records : Matched(i)) =>
              /\ ~is_failure
              /\ CompletionSent => SentState = "Completed"

C2_Witness ==
    /\ AllInputsPassed
    /\ CompletionSent
    /\ Len(test_points_results) = 2
    /\ \A i \in Records : Matched(i)
    /\ ~is_failure
    /\ SentState = "Completed"

\* ---- C3 -----------------------------------------------------------------
\* C3: every record process_test_results returned has state "Completed" and
\* a priority, which is the priority of the input result for the
\* placeholder's test case when that result has one, and 2 otherwise.
C3_StateAndPriority ==
    Merged =>
        \A i \in Records :
            LET rec == test_results_payload[i]
            IN  /\ "state" \in DOMAIN rec
                /\ rec.state = "Completed"
                /\ "priority" \in DOMAIN rec
                /\ rec.priority =
                      IF Matched(i) /\ "priority" \in DOMAIN Input[TcOf(i)]
                      THEN Input[TcOf(i)].priority
                      ELSE 2

C3_Witness ==
    /\ Merged
    /\ Len(test_results_payload) = 2
    /\ Matched(1) /\ "priority" \in DOMAIN Input[TcOf(1)]
    /\ test_results_payload[1].priority = 1
    /\ ~Matched(2)
    /\ test_results_payload[2].outcome = "NotExecuted"
    /\ test_results_payload[2].priority = 2

\* ---- C4 -----------------------------------------------------------------
\* C4: every returned record whose outcome is not "Passed" has a failureType,
\* the one of the matching input result when that result has one and
\* "New Issue" otherwise; a placeholder without a matching input result gives
\* outcome "NotExecuted" with failureType "New Issue"; a record whose outcome
\* is "Passed" has a failureType only if its input result had it.
C4_FailureType ==
    Merged =>
        \A i \in Records :
            LET rec == test_results_payload[i]
                supplied == Matched(i) /\ "failureType" \in DOMAIN Input[TcOf(i)]
            IN  /\ rec.outcome # "Passed" =>
                      /\ "failureType" \in DOMAIN rec
                      /\ rec.failureType =
                            IF supplied THEN Input[TcOf(i)].failureType
                            ELSE "New Issue"
                /\ ~Matched(i) =>
                      /\ rec.outcome = "NotExecuted"
                      /\ rec.failureType = "New Issue"
                /\ rec.outcome = "Passed" =>
                      /\ ("failureType" \in DOMAIN rec) <=> supplied
                      /\ supplied => rec.failureType = Input[TcOf(i)].failureType

C4_Witness ==
    /\ Merged
    /\ Len(test_results_payload) = 2
    /\ Matched(1)
    /\ test_results_payload[1].outcome = "Failed"
    /\ "failureType" \in DOMAIN Input[TcOf(1)]
    /\ test_results_payload[1].failureType = "Known Issue"
    /\ ~Matched(2)
    /\ test_results_payload[2].failureType = "New Issue"

\* ---- C5 -----------------------------------------------------------------
C5_PatchOutcome ==
    /\ (Len(requests) > 0 /\ LastRequest.method = "PATCH" /\ response.received) =>
          /\ (error = "none") <=> (response.status = 200)
          /\ response.status # 200 =>
                error = "UnexpectedResponse" /\ LastStepRaised
    /\ (pc = "post_test_results" /\ error # "none") => ~CompletionSent

\* C5: post_test_results and complete_test_run raise whenever the status of
\* the PATCH response is anything but 200 and return normally only on 200;
\* once post_test_results has raised, the run-completion PATCH has not been
\* issued and is never issued.
C5_PatchRequires200 ==
    [](C5_PatchOutcome)
    /\ [][(pc = "post_test_results" /\ error # "none") => requests' = requests]_vars

C5_Witness ==
    /\ pc = "post_test_results"
    /\ error = "UnexpectedResponse"
    /\ LastRequest.method = "PATCH"
    /\ response.status = 204
    /\ ~CompletionSent

\* ---- C6 -----------------------------------------------------------------
C6_Order ==
    /\ Len(requests) <= Len(ExpectedRequests)
    /\ \A i \in 1..Len(requests) :
          /\ requests[i].method = ExpectedRequests[i].method
          /\ requests[i].uri = ExpectedRequests[i].uri
    /\ error = "none" => Len(requests) = IF pc = "load" THEN 0 ELSE StepIndex(pc) - 2
    /\ error # "none" => Len(requests) = StepIndex(pc) - 1
    /\ (error = "none" /\ Len(requests) > 0) =>
          /\ response.received
          /\ IF LastRequest.method = "PATCH"
             THEN response.status = 200
             ELSE response.status < 400
    /\ pc = "done" => error = "none"

\* C6: the requests of one run of main are issued in the order list plans,
\* list suites, list test points, create run, fetch run results, PATCH
\* results, PATCH run state, one per step, each after the step before it
\* returned normally; once a step has raised, no further request is issued
\* and the error stays raised.
C6_SequentialPipeline ==
    [](C6_Order)
    /\ [][/\ \/ requests' = requests
             \/ /\ error = "none"
                /\ Len(requests') = Len(requests) + 1
                /\ SubSeq(requests', 1, Len(requests)) = requests
          /\ error # "none" => (requests' = requests /\ error' = error /\ pc' = pc)]_vars

C6_Witness ==
    /\ pc = "done"
    /\ Len(requests) = 7
    /\ error = "none"

\* ---- C7 -----------------------------------------------------------------
NoMatch(list, name) == \A i \in 1..Len(list) : list[i].name # name

IsFirstMatchId(list, name, id) ==
    \E i \in 1..Len(list) :
        /\ list[i].name = name
        /\ \A j \in 1..(i - 1) : list[j].name # name
        /\ list[i].id = id

ListParsed == parsed /\ response.body.json

\* C7: get_test_plan_id and get_test_suite_id return the id of the first
\* entry of the server's list whose name equals the requested name, also when
\* several entries have that name; when no entry has it they raise the
\* not-found ValueError, and no test run has been or will be created.
C7_FirstMatchWins ==
    /\ (pc = "get_test_suite_id" /\ error = "none") =>
          IsFirstMatchId(response.body.value, test_plan_name, test_plan_id)
    /\ (pc = "get_test_points" /\ error = "none") =>
          IsFirstMatchId(response.body.value, test_suite_name, test_suite_id)
    /\ (pc = "get_test_plan_id" /\ error # "none" /\ ListParsed) =>
          /\ error = "NotFound"
          /\ NoMatch(response.body.value, test_plan_name)
    /\ (pc = "get_test_suite_id" /\ error # "none" /\ ListParsed) =>
          /\ error = "NotFound"
          /\ NoMatch(response.body.value, test_suite_name)
    /\ error = "NotFound" =>
          /\ pc \in {"get_test_plan_id", "get_test_suite_id"}
          /\ ~Issued("runs", "POST")

C7_Witness ==
    /\ pc = "get_test_suite_id" /\ error = "none"
    /\ Len(response.body.value) = 2
    /\ response.body.value[1].name = test_plan_name
    /\ response.body.value[2].name = test_plan_name
    /\ response.body.value[1].id # response.body.value[2].id
    /\ test_plan_id = response.body.value[1].id

\* ---- C8 -----------------------------------------------------------------
LastIsGet == Len(requests) > 0 /\ LastRequest.method = "GET" /\ response.received

\* C8 as stated: a GET of the pipeline whose response status is outside
\* 200..299 raises before the body is read, and the next step never starts.
C8_Original ==
    (LastIsGet /\ ~(response.status >= 200 /\ response.status <= 299)) =>
        /\ error = "HTTPError"
        /\ ~parsed
        /\ LastStepRaised

C8_ErrorStatus ==
    (LastIsGet /\ response.status >= 400 /\ response.status <= 599) =>
        /\ error = "HTTPError"
        /\ ~parsed
        /\ LastStepRaised

\* C8 amended: a GET of the pipeline whose response status is in 400..599
\* raises before the body is read, and the next step never starts.
C8_ErrorStatusRaises ==
    [](C8_ErrorStatus)
    /\ [][(LastIsGet /\ response.status >= 400 /\ response.status <= 599)
            => (requests' = requests /\ pc' = pc)]_vars

C8_Witness ==
    /\ LastIsGet
    /\ LastRequest.uri = "results"
    /\ response.status = 404
    /\ response.body.json
    /\ error = "HTTPError"
    /\ pc = "process_test_results"

\* ---- C9 -----------------------------------------------------------------
\* C9: process_test_results returns one record per placeholder record, in
\* the server's order, the i-th with the id of the i-th placeholder; so the
\* returned ids are pairwise distinct when the placeholder ids are.
C9_OneRecordPerPlaceholder ==
    Merged =>
        /\ Len(test_results_payload) = Len(test_points_results)
        /\ \A i \in Records :
              test_results_payload[i].id = test_points_results[i].id
        /\ (\A i, j \in Records :
                i # j => test_points_results[i].id # test_points_results[j].id)
           => (\A i, j \in Records :
                i # j => test_results_payload[i].id # test_results_payload[j].id)

\* ---- C10 ----------------------------------------------------------------
Unmatched(tc) == \A i \in Records : TcOf(i) # tc

\* C10: an input result whose test-case id no placeholder record refers to
\* is left as it was read and stands behind no returned record: the returned
\* records are those of the placeholders, each with the outcome of its own
\* test case, and the failure flag is set only if one of them is not
\* "Passed", so the run is completed as "Completed" when all of them are.
C10_UnmatchedInputDropped ==
    Merged =>
        /\ Len(test_results_payload) = Len(test_points_results)
        /\ \A tc \in DOMAIN Input :
              Unmatched(tc) =>
                  /\ tc \in DOMAIN test_results
                  /\ test_results[tc] = Input[tc]
        /\ \A i \in Records :
              test_results_payload[i].outcome =
                  IF Matched(i) THEN Input[TcOf(i)].outcome ELSE "NotExecuted"
        /\ is_failure => SomeRecordNotPassed
        /\ (CompletionSent /\ ~SomeRecordNotPassed) => SentState = "Completed"

C10_Witness ==
    /\ CompletionSent
    /\ \E tc \in DOMAIN Input : Unmatched(tc) /\ Input[tc].outcome = "Failed"
    /\ Len(test_results_payload) = 1
    /\ ~is_failure
    /\ SentState = "Completed"

====
